---- MODULE Spec2Model ----
(***************************************************************************)
(* Model of hardware/nfc-sign/export_3mf.py: the STL -> multi-colour 3MF   *)
(* conversion.  Two specifications:                                       *)
(*   Spec      create_3mf (and the __main__ glue calling it), one step per *)
(*             loop iteration of the source;                              *)
(*   SpecMesh  stl_to_vertices_triangles, one step per raw triangle.      *)
(***************************************************************************)
EXTENDS Integers, Sequences, FiniteSets, TLC

\* ---------------------------------------------------------------- bounds
MaxParts == 3     \* longest part list handed to create_3mf by an API caller
MaxTris  == 2     \* most raw triangles of a mesh in SpecMesh

\* ------------------------------------------------------- program constants
MaterialsId   == 1          \* basematerials.set("id", "1")
FirstObjectId == 2          \* object_id = 2
DefaultColor  == "#808080"  \* part.get('color', '#808080')

Absent == "<absent>"        \* a key the part dict does not have

VARIABLES
    \* create_3mf and __main__
    pc,             \* position in the program
    fs,             \* the file system: file name -> [exists, valid, vectors]
    parts,          \* the part list (dicts with 'file', 'color', 'name')
    i,              \* index of the next part of the running for-loop
    color_map,      \* dict colour -> index, as a set of [color, idx]
    color_id,
    basematerials,  \* the <m:base> children, in document order
    object_id,
    build_items,
    objects,        \* the <object> children of <resources>, in document order
    build,          \* the <item> children of <build>, in document order
    package,        \* the output archive (NoFile until it is written)
    raised,         \* the exception that left create_3mf, or "none"
    \* stl_to_vertices_triangles
    mpc,
    raw,            \* stl_mesh.vectors
    vertices,
    triangles,
    vertex_map      \* dict v_tuple -> index, as a set of [key, idx]

cvars == <<pc, fs, parts, i, color_map, color_id, basematerials, object_id,
           build_items, objects, build, package, raised>>
mvars == <<mpc, raw, vertices, triangles, vertex_map>>
vars  == <<cvars, mvars>>

\* ------------------------------------------------------------ float values
\* A coordinate is a float: sign and magnitude, so that +0.0 and -0.0 are two
\* objects that compare equal (and hash alike), as in Python / numpy.
Pos(m)  == [sign |-> 0, mag |-> m]
NegZero == [sign |-> 1, mag |-> 0]

FloatEq(a, b) == (a.mag = 0 /\ b.mag = 0) \/ a = b

\* tuple.__eq__ on two 3-tuples of floats
TupleEq(p, q) == \A k \in 1..3 : FloatEq(p[k], q[k])

P00 == <<Pos(0),  Pos(0), Pos(0)>>
N00 == <<NegZero, Pos(0), Pos(0)>>
P10 == <<Pos(1),  Pos(0), Pos(0)>>
P01 == <<Pos(0),  Pos(1), Pos(0)>>
P11 == <<Pos(1),  Pos(1), Pos(0)>>

Points == {P00, N00, P10, P01, P11}

\* ------------------------------------------- stl_to_vertices_triangles
\* vertex_map[v_tuple]
MapIndex(vmap, v) == (CHOOSE e \in vmap : TupleEq(e.key, v)).idx

\* (variant: keys compared by representation, so -0.0 is not 0.0)
InMapExact(vmap, v) == \E e \in vmap : e.key = v

\* v_tuple in vertex_map
InMap(vmap, v) == \E e \in vmap : TupleEq(e.key, v)

\* (variant: the index taken after the append, one too far)
NewIndexAfter(verts) == Len(verts) + 1

\* The index a new vertex is entered under
NewIndex(verts) == Len(verts)

\* One pass of the inner loop body (lines 46-50) on the accumulator
\* [vertices, vertex_map, tri_indices].
Corner(acc, v) ==
    LET hit  == InMap(acc.vertex_map, v)
        vm   == IF hit THEN acc.vertex_map
                ELSE acc.vertex_map \cup {[key |-> v, idx |-> NewIndex(acc.vertices)]}
        vs   == IF hit THEN acc.vertices ELSE Append(acc.vertices, v)
    IN  [vertices    |-> vs,
         vertex_map  |-> vm,
         tri_indices |-> Append(acc.tri_indices, MapIndex(vm, v))]

\* One pass of the outer loop body (lines 44-51) for one raw triangle
Triangle(verts, vmap, triangle) ==
    LET a0 == [vertices |-> verts, vertex_map |-> vmap, tri_indices |-> <<>>]
    IN  Corner(Corner(Corner(a0, triangle[1]), triangle[2]), triangle[3])

RECURSIVE Dedup(_, _, _, _)
Dedup(vectors, n, verts, tris) ==
    IF n > Len(vectors) THEN [vertices |-> verts.vertices, triangles |-> tris]
    ELSE LET r == Triangle(verts.vertices, verts.vertex_map, vectors[n])
         IN  Dedup(vectors, n + 1,
                   [vertices |-> r.vertices, vertex_map |-> r.vertex_map],
                   Append(tris, r.tri_indices))

\* stl_to_vertices_triangles on the decoded vectors of a file
StlToVerticesTriangles(vectors) ==
    Dedup(vectors, 1, [vertices |-> <<>>, vertex_map |-> {}], <<>>)

\* ------------------------------------------------------------ file system
FileMissing == [exists |-> FALSE, valid |-> FALSE, vectors |-> <<>>]
FileCorrupt == [exists |-> TRUE,  valid |-> FALSE, vectors |-> <<>>]
FileMesh(m) == [exists |-> TRUE,  valid |-> TRUE,  vectors |-> m]

\* two triangles sharing the edge P10-P01
Quad == << <<P00, P10, P01>>, <<P10, P01, P11>> >>

MainFiles == {"sign_plate.stl", "sign_elements.stl", "stand.stl", "frame.stl"}
ApiFiles  == {"stl/part.stl", "missing.stl", "corrupt.stl"}
Files     == MainFiles \cup ApiFiles

\* os.path.basename on the file names in use
Basename(f) == IF f = "stl/part.stl" THEN "part.stl" ELSE f

\* The file system an API caller's part list is resolved against
ApiFs == [f \in Files |->
            CASE f = "stl/part.stl" -> FileMesh(Quad)
              [] f = "corrupt.stl"  -> FileCorrupt
              [] OTHER              -> FileMissing]

\* os.path.exists(stl_file)
Exists(f) == fs[f].exists

\* ------------------------------------------------------------------ parts
Part(f, c, n) == [file |-> f, color |-> c, name |-> n]

\* dict.get(key, default)
Get(v, default) == IF v = Absent THEN default ELSE v

\* part.get('color', '#808080')
ColorOf(part) == Get(part.color, DefaultColor)

\* the parts list of __main__ (lines 173-194)
MainParts == << Part("sign_plate.stl",    "#F5F5F0", "Sign Base"),
                Part("sign_elements.stl", "#1A1A1A", "Sign Text"),
                Part("stand.stl",         "#1A1A1A", "Stand"),
                Part("frame.stl",         "#1A1A1A", "Frame") >>

\* The 'color' and 'name' of an API caller's part: two names for one colour,
\* the default colour spelled out, and a part with neither key.
Styles == { <<"#1A1A1A", "Sign Text">>, <<"#1A1A1A", "Stand">>,
            <<DefaultColor, "Stand">>,  <<Absent, Absent>> }

ApiPartSet == {Part(f, s[1], s[2]) : f \in ApiFiles, s \in Styles}

PartLists == UNION {[1..n -> ApiPartSet] : n \in 0..MaxParts}

\* ------------------------------------------------------------ the package
NoFile == [entries |-> <<>>, basematerials |-> <<>>, objects |-> <<>>, build |-> <<>>]

ArchiveEntries == <<"[Content_Types].xml", "_rels/.rels", "3D/3dmodel.model">>

\* f"{x:.6f}" of a coordinate
Fmt6(c) == (IF c.sign = 1 THEN "-" ELSE "") \o ToString(c.mag) \o ".000000"

VertexElem(v)   == [x |-> Fmt6(v[1]), y |-> Fmt6(v[2]), z |-> Fmt6(v[3])]
TriangleElem(t) == [v1 |-> ToString(t[1]), v2 |-> ToString(t[2]), v3 |-> ToString(t[3])]

\* (variant: the membership test left out, every part adds a base)
RegisteredNever(cmap, color) == FALSE

\* color in color_map
Registered(cmap, color) == \E e \in cmap : e.color = color

\* (variant: the lookup without the default colour, color_map.get(part.get('color'), 0))
ColorIdxNoDefault(cmap, part) ==
    IF \E e \in cmap : e.color = part.color
    THEN (CHOOSE e \in cmap : e.color = part.color).idx
    ELSE 0

\* color_map.get(part.get('color', '#808080'), 0)
ColorIdx(cmap, part) ==
    IF Registered(cmap, ColorOf(part))
    THEN (CHOOSE e \in cmap : e.color = ColorOf(part)).idx
    ELSE 0

\* (variant: the increment left out)
NextIdStuck(id) == id

\* object_id += 1
NextId(id) == id + 1

\* (variant: build_items.insert(0, object_id))
InsertItemFirst(items, id) == <<id>> \o items

\* build_items.append(object_id)
AppendItem(items, id) == Append(items, id)

\* (variant: `break` in place of `continue`)
BreakAt(k) == Len(parts) + 1

\* `continue`: the for-loop goes on with the next part
ContinueAt(k) == k + 1

\* The <object> element of lines 105-129
ObjectElem(part, id, cmap) ==
    LET m == StlToVerticesTriangles(fs[part.file].vectors)
    IN  [id        |-> ToString(id),
         type      |-> "model",
         name      |-> Get(part.name, Basename(part.file)),
         pid       |-> ToString(MaterialsId),
         pindex    |-> ToString(ColorIdx(cmap, part)),
         vertices  |-> [k \in 1..Len(m.vertices)  |-> VertexElem(m.vertices[k])],
         triangles |-> [k \in 1..Len(m.triangles) |-> TriangleElem(m.triangles[k])]]

\* ------------------------------------------------------------------- Spec
MeshIdle == /\ mpc = "idle" /\ raw = <<>> /\ vertices = <<>>
            /\ triangles = <<>> /\ vertex_map = {}

CreateEntry == /\ i = 1 /\ color_map = {} /\ color_id = 0
               /\ basematerials = <<>> /\ object_id = 0 /\ build_items = <<>>
               /\ objects = <<>> /\ build = <<>> /\ package = NoFile
               /\ raised = "none"

\* Either the script is run (__main__, against any state of its four files),
\* or create_3mf is called with a part list of the caller's.
Init ==
    /\ MeshIdle
    /\ CreateEntry
    /\ \/ /\ pc = "main"
          /\ parts = MainParts
          /\ fs \in [Files -> {FileMissing, FileCorrupt, FileMesh(Quad)}]
          /\ \A f \in ApiFiles : fs[f] = FileMissing
       \/ /\ pc = "materials"
          /\ parts \in PartLists
          /\ fs = ApiFs

existing_parts == SelectSeq(parts, LAMBDA p : Exists(p.file))

\* __main__, lines 196-207: no file exists
MainNoFiles ==
    /\ pc = "main"
    /\ existing_parts = <<>>
    /\ pc' = "exit1"
    /\ UNCHANGED <<fs, parts, i, color_map, color_id, basematerials, object_id,
                   build_items, objects, build, package, raised, mvars>>

\* __main__, lines 196-213: create_3mf(existing_parts)
MainCreate ==
    /\ pc = "main"
    /\ existing_parts # <<>>
    /\ parts' = existing_parts
    /\ pc' = "materials"
    /\ UNCHANGED <<fs, i, color_map, color_id, basematerials, object_id,
                   build_items, objects, build, package, raised, mvars>>

\* lines 82-89: one iteration of the colour loop
RegisterColor ==
    /\ pc = "materials"
    /\ i <= Len(parts)
    /\ LET part  == parts[i]
           color == ColorOf(part)
       IN  IF ~Registered(color_map, color)
           THEN /\ basematerials' = Append(basematerials,
                       [name |-> Get(part.name, "Color_" \o ToString(color_id)),
                        displaycolor |-> color])
                /\ color_map' = color_map \cup {[color |-> color, idx |-> color_id]}
                /\ color_id' = color_id + 1
           ELSE UNCHANGED <<basematerials, color_map, color_id>>
    /\ i' = i + 1
    /\ UNCHANGED <<pc, fs, parts, object_id, build_items, objects, build,
                   package, raised, mvars>>

\* lines 91-93: the colour loop is over
ObjectsInit ==
    /\ pc = "materials"
    /\ i > Len(parts)
    /\ object_id' = FirstObjectId
    /\ build_items' = <<>>
    /\ i' = 1
    /\ pc' = "objects"
    /\ UNCHANGED <<fs, parts, color_map, color_id, basematerials, objects,
                   build, package, raised, mvars>>

\* lines 96-99: the file is not there
SkipMissing ==
    /\ pc = "objects"
    /\ i <= Len(parts)
    /\ ~Exists(parts[i].file)
    /\ i' = ContinueAt(i)
    /\ UNCHANGED <<pc, fs, parts, color_map, color_id, basematerials, object_id,
                   build_items, objects, build, package, raised, mvars>>

\* line 101 (37): mesh.Mesh.from_file raises, nothing catches it
DecodeError ==
    /\ pc = "objects"
    /\ i <= Len(parts)
    /\ Exists(parts[i].file)
    /\ ~fs[parts[i].file].valid
    /\ raised' = "DecodeError"
    /\ pc' = "raised"
    /\ UNCHANGED <<fs, parts, i, color_map, color_id, basematerials, object_id,
                   build_items, objects, build, package, mvars>>

\* lines 101-132: the part becomes an object
EmitObject ==
    /\ pc = "objects"
    /\ i <= Len(parts)
    /\ Exists(parts[i].file)
    /\ fs[parts[i].file].valid
    /\ objects' = Append(objects, ObjectElem(parts[i], object_id, color_map))
    /\ build_items' = AppendItem(build_items, object_id)
    /\ object_id' = NextId(object_id)
    /\ i' = i + 1
    /\ UNCHANGED <<pc, fs, parts, color_map, color_id, basematerials, build,
                   package, raised, mvars>>

\* lines 134-138
BuildElement ==
    /\ pc = "objects"
    /\ i > Len(parts)
    /\ build' = [k \in 1..Len(build_items) |-> [objectid |-> ToString(build_items[k])]]
    /\ pc' = "write"
    /\ UNCHANGED <<fs, parts, i, color_map, color_id, basematerials, object_id,
                   build_items, objects, package, raised, mvars>>

\* lines 140-168
WritePackage ==
    /\ pc = "write"
    /\ package' = [entries |-> ArchiveEntries, basematerials |-> basematerials,
                   objects |-> objects, build |-> build]
    /\ pc' = "done"
    /\ UNCHANGED <<fs, parts, i, color_map, color_id, basematerials, object_id,
                   build_items, objects, build, raised, mvars>>

Next ==
    \/ MainNoFiles
    \/ MainCreate
    \/ RegisterColor
    \/ ObjectsInit
    \/ SkipMissing
    \/ DecodeError
    \/ EmitObject
    \/ BuildElement
    \/ WritePackage

Spec == Init /\ [][Next]_vars

\* --------------------------------------------------------------- SpecMesh
CreateIdle == /\ pc = "idle" /\ fs = ApiFs /\ parts = <<>> /\ CreateEntry

\* Raw triangles: proper ones, ones with repeated corners, and ones that
\* spell the origin with either zero.
Triangles3 == {<<a, b, c>> : a \in {P00, N00, P10},
                             b \in {P00, P10, P01},
                             c \in {P00, P01, P11}}

Meshes == UNION {[1..n -> Triangles3] : n \in 0..MaxTris}

\* line 37-41: the file decoded to any mesh
MInit ==
    /\ CreateIdle
    /\ mpc = "loop"
    /\ raw \in Meshes
    /\ vertices = <<>>
    /\ triangles = <<>>
    /\ vertex_map = {}

\* lines 43-51: one iteration of the triangle loop
MTriangle ==
    /\ mpc = "loop"
    /\ Len(triangles) < Len(raw)
    /\ LET r == Triangle(vertices, vertex_map, raw[Len(triangles) + 1])
       IN  /\ vertices' = r.vertices
           /\ vertex_map' = r.vertex_map
           /\ triangles' = Append(triangles, r.tri_indices)
    /\ UNCHANGED <<mpc, raw, cvars>>

\* line 53
MReturn ==
    /\ mpc = "loop"
    /\ Len(triangles) = Len(raw)
    /\ mpc' = "returned"
    /\ UNCHANGED <<raw, vertices, triangles, vertex_map, cvars>>

MNext == MTriangle \/ MReturn

SpecMesh == MInit /\ [][MNext]_vars

\* ================================================================ claims
\* create_3mf has been entered
InCreate == pc \in {"materials", "objects", "write", "done", "raised"}

\* create_3mf has ended, by return or by exception
Ended == pc \in {"done", "raised"}

\* The parts the object loop has gone through
ProcessedN ==
    CASE pc \in {"objects", "raised"} -> i - 1
      [] pc \in {"write", "done"}     -> Len(parts)
      [] OTHER                        -> 0

\* ... and those of them whose file exists, in input order
Survivors == SelectSeq(SubSeq(parts, 1, ProcessedN), LAMBDA p : Exists(p.file))

\* The parts the colour loop has gone through
SeenN ==
    CASE pc = "materials"                             -> i - 1
      [] pc \in {"objects", "write", "done", "raised"} -> Len(parts)
      [] OTHER                                        -> 0

\* The number an attribute text spells
IntOf(s) == CHOOSE n \in 0..(Len(parts) + FirstObjectId + 1) : ToString(n) = s

NoDuplicates(seq) == \A a, b \in 1..Len(seq) : a # b => seq[a] # seq[b]

\* ---------------------------------------------------------------- C1
\* C1 (as claimed): when create_3mf is called with an empty part list, or
\* with one in which every part's file is missing, it ends by raising
\* EmptyInputError and no output package exists.
C1_EmptyInputRaises ==
    (Ended /\ \A k \in 1..Len(parts) : ~Exists(parts[k].file))
        => (raised = "EmptyInputError" /\ package = NoFile)

\* ---------------------------------------------------------------- C2
\* C2 (as claimed): when some part's file exists but does not decode,
\* create_3mf still returns normally and the written package holds one
\* object for every part that exists and decodes.
C2_DecodeFailureContained ==
    (Ended /\ \E k \in 1..Len(parts) :
                  Exists(parts[k].file) /\ ~fs[parts[k].file].valid)
        => /\ pc = "done"
           /\ raised = "none"
           /\ package.entries = ArchiveEntries
           /\ Len(package.objects) =
                  Len(SelectSeq(parts, LAMBDA p : fs[p.file].valid))

\* ---------------------------------------------------------------- C3
\* C3 (as claimed): in the written package the base materials are exactly
\* the distinct colours of the parts that were not skipped, one entry each,
\* so a part whose file is missing supplies no entry and no entry name.
C3_SkippedPartNoMaterial ==
    pc = "done" =>
        LET kept == {k \in 1..Len(parts) : Exists(parts[k].file)}
            B    == package.basematerials
        IN  /\ {B[k].displaycolor : k \in 1..Len(B)} = {ColorOf(parts[k]) : k \in kept}
            /\ Len(B) = Cardinality({ColorOf(parts[k]) : k \in kept})

\* ---------------------------------------------------------------- C4
\* The object a surviving part is seen by: its name attribute, and the
\* display colour its pindex selects
SameNameColor(obj, part) ==
    /\ obj.name = Get(part.name, Basename(part.file))
    /\ IntOf(obj.pindex) + 1 \in 1..Len(basematerials)
    /\ basematerials[IntOf(obj.pindex) + 1].displaycolor = ColorOf(part)

\* C4: at every point of the object loop and in the written package, the
\* objects emitted are, one for one and in input order, the parts gone
\* through whose file exists; a missing file yields no object and the loop
\* goes on to the end of the list.
C4_SkipSemantics ==
    pc \in {"objects", "write", "done", "raised"} =>
        /\ Len(objects) = Len(Survivors)
        /\ \A k \in 1..Len(objects) : SameNameColor(objects[k], Survivors[k])
        /\ pc = "done" => package.objects = objects

\* three parts, the second missing: two objects, for the first and the third
C4_Witness ==
    /\ pc = "done"
    /\ Len(parts) = 3
    /\ Exists(parts[1].file) /\ ~Exists(parts[2].file) /\ Exists(parts[3].file)
    /\ parts[1].name = "Sign Text" /\ parts[3].name = "Stand"
    /\ Len(package.objects) = 2
    /\ package.objects[1].name = "Sign Text"
    /\ package.objects[2].name = "Stand"

\* ---------------------------------------------------------------- C5
\* The first part, among those seen, with colour c
FirstWith(c) ==
    CHOOSE j \in 1..SeenN :
        ColorOf(parts[j]) = c /\ \A h \in 1..(j - 1) : ColorOf(parts[h]) # c

C5_Registry ==
    LET B == basematerials
    IN  /\ {B[k].displaycolor : k \in 1..Len(B)} = {ColorOf(parts[j]) : j \in 1..SeenN}
        /\ \A a, b \in 1..Len(B) : a # b => B[a].displaycolor # B[b].displaycolor
        /\ Cardinality(color_map) = Len(B)
        /\ color_id = Len(B)
        /\ \A k \in 1..Len(B) :
              /\ [color |-> B[k].displaycolor, idx |-> k - 1] \in color_map
              /\ B[k].name = Get(parts[FirstWith(B[k].displaycolor)].name,
                                 "Color_" \o ToString(k - 1))
        /\ \A a, b \in 1..Len(B) :
              a < b => FirstWith(B[a].displaycolor) < FirstWith(B[b].displaycolor)
        /\ pc = "done" => package.basematerials = B

C5_Stable ==
    /\ \A e \in color_map : e \in color_map'
    /\ Len(basematerials') >= Len(basematerials)
    /\ SubSeq(basematerials', 1, Len(basematerials)) = basematerials

\* C5: the registry holds one entry per distinct colour of the parts seen,
\* indexed 0, 1, ... in first-seen order and named after the first part with
\* that colour; and no step changes an index or an entry once given.
C5_FirstWriterWins == [](InCreate => C5_Registry) /\ [][C5_Stable]_vars

\* two parts of one colour with different names: one entry, the first name
C5_Witness ==
    /\ pc = "done"
    /\ Len(parts) >= 2
    /\ ColorOf(parts[1]) = ColorOf(parts[2])
    /\ parts[1].name = "Sign Text" /\ parts[2].name = "Stand"
    /\ Len(package.basematerials) = 1
    /\ package.basematerials[1].name = "Sign Text"

\* ---------------------------------------------------------------- C6
\* C6: the first object has identity 2, identities go up by one from object
\* to object in input order (so a skipped part uses none up, and no two are
\* alike), and none is 1, the identity of the material collection.
C6_ObjectIdentities ==
    pc \in {"objects", "write", "done", "raised"} =>
        LET id(k) == IntOf(objects[k].id)
        IN  /\ Len(objects) > 0 => objects[1].id = "2"
            /\ \A k \in 1..(Len(objects) - 1) : id(k + 1) = id(k) + 1
            /\ \A a, b \in 1..Len(objects) : a < b => id(a) < id(b)
            /\ \A k \in 1..Len(objects) : objects[k].id # ToString(MaterialsId)
            /\ object_id = FirstObjectId + Len(objects)

\* a skipped part between two emitted ones: identities 2 and 3
C6_Witness ==
    /\ pc = "done"
    /\ Len(parts) = 3
    /\ Exists(parts[1].file) /\ ~Exists(parts[2].file) /\ Exists(parts[3].file)
    /\ Len(package.objects) = 2
    /\ package.objects[1].id = "2"
    /\ package.objects[2].id = "3"

\* ---------------------------------------------------------------- C7
\* C7: at every point of the object loop the build list is the identities
\* of the objects emitted so far, in order and without repeats; the item
\* elements, and those of the written package, follow it entry for entry,
\* each naming an object element that exists.
C7_BuildList ==
    pc \in {"objects", "write", "done", "raised"} =>
        /\ build_items = [k \in 1..Len(objects) |-> IntOf(objects[k].id)]
        /\ NoDuplicates(build_items)
        /\ pc \in {"write", "done"} =>
              build = [k \in 1..Len(build_items) |-> [objectid |-> ToString(build_items[k])]]
        /\ pc = "done" =>
              /\ package.build = build
              /\ Len(package.build) = Len(package.objects)
              /\ \A k \in 1..Len(package.build) :
                    package.build[k].objectid = package.objects[k].id

\* a package with two items, after a skipped part
C7_Witness ==
    /\ pc = "done"
    /\ \E k \in 1..Len(parts) : ~Exists(parts[k].file)
    /\ package.build = <<[objectid |-> "2"], [objectid |-> "3"]>>

\* ---------------------------------------------------------------- C8
\* C8: every object refers to material collection 1 with a pindex inside
\* the basematerials block, whose entry shows the colour of the object's
\* own part.
C8_MaterialReference ==
    pc \in {"objects", "write", "done", "raised"} =>
        /\ Len(objects) = Len(Survivors)
        /\ \A k \in 1..Len(objects) :
              LET px == IntOf(objects[k].pindex)
              IN  /\ objects[k].pid = "1"
                  /\ 0 <= px /\ px < Len(basematerials)
                  /\ basematerials[px + 1].displaycolor = ColorOf(Survivors[k])

\* an object of the second colour, which its part leaves to the default
C8_Witness ==
    /\ pc = "done"
    /\ Len(parts) = 2
    /\ parts[1].color = "#1A1A1A" /\ parts[2].color = Absent
    /\ Len(package.objects) = 2
    /\ package.objects[2].pindex = "1"
    /\ package.basematerials[2].displaycolor = DefaultColor

\* ---------------------------------------------------------------- C9
\* The corners read so far, in reading order
Corners ==
    [n \in 1..(3 * Len(triangles)) |-> raw[((n - 1) \div 3) + 1][((n - 1) % 3) + 1]]

\* Where the value of table entry a first occurs among the corners read
FirstOccurrence(a) ==
    CHOOSE n \in 1..Len(Corners) :
        /\ TupleEq(Corners[n], vertices[a])
        /\ \A h \in 1..(n - 1) : ~TupleEq(Corners[h], vertices[a])

\* C9: after every triangle and at the return, no two entries of the vertex
\* table are equal in value, every corner read so far has its value in the
\* table, and the entries stand in the order their values first occurred
\* (each entry being that first occurrence).
C9_VertexDedup ==
    mpc \in {"loop", "returned"} =>
        /\ \A a, b \in 1..Len(vertices) : a # b => ~TupleEq(vertices[a], vertices[b])
        /\ \A n \in 1..Len(Corners) :
              \E a \in 1..Len(vertices) : TupleEq(vertices[a], Corners[n])
        /\ \A a \in 1..Len(vertices) :
              /\ \E n \in 1..Len(Corners) : TupleEq(Corners[n], vertices[a])
              /\ vertices[a] = Corners[FirstOccurrence(a)]
        /\ \A a, b \in 1..Len(vertices) :
              a < b => FirstOccurrence(a) < FirstOccurrence(b)

\* two triangles sharing an edge: a table of four entries
C9_Witness ==
    /\ mpc = "returned"
    /\ raw = Quad
    /\ Len(vertices) = 4
    /\ vertices = <<P00, P10, P01, P11>>

\* --------------------------------------------------------------- C10
\* C10: the function returns as many index triangles as there are raw
\* triangles, in their order, and at most three table entries per triangle;
\* every index lies inside the table, and the entry it selects has the
\* value of the raw corner it stands for (repeated corners included).
C10_TriangleRemap ==
    mpc \in {"loop", "returned"} =>
        /\ Len(triangles) <= Len(raw)
        /\ mpc = "returned" => Len(triangles) = Len(raw)
        /\ Len(vertices) <= 3 * Len(triangles)
        /\ \A j \in 1..Len(triangles) :
              /\ Len(triangles[j]) = 3
              /\ \A k \in 1..3 :
                    /\ 0 <= triangles[j][k]
                    /\ triangles[j][k] < Len(vertices)
                    /\ TupleEq(vertices[triangles[j][k] + 1], raw[j][k])

\* a triangle with a repeated corner passes through, after a proper one
C10_Witness ==
    /\ mpc = "returned"
    /\ Len(raw) = 2
    /\ raw[1] = <<P00, P10, P01>>
    /\ raw[2] = <<P10, P10, P11>>
    /\ triangles = << <<0, 1, 2>>, <<1, 1, 3>> >>

====
